---- MODULE Spec2Model ----
(***************************************************************************)
(* Onebeam agent runtime: the tool registry and permission validator       *)
(* (core/tools), the schema validator (core/schema-validator) and the      *)
(* two-phase run orchestrator (core/agent-runtime).                        *)
(*                                                                         *)
(* JavaScript values are modelled as tagged records:                       *)
(*   [t |-> "string", s |-> ...]   [t |-> "number", n |-> ...]             *)
(*   [t |-> "boolean", b |-> ...]  [t |-> "null"]                          *)
(*   [t |-> "array", e |-> <<values>>]                                     *)
(*   [t |-> "object", k |-> <<own keys>>, v |-> <<their values>>]          *)
(* A JSONSchema node is a record that has a field exactly when the source  *)
(* object has the property (optional properties are absent fields); its    *)
(* properties map is [k |-> <<names>>, v |-> <<schemas>>].                 *)
(* ToolCall objects are shared by reference between result.toolCalls,      *)
(* approvedCalls and blockedCalls, so they live in a heap (calls) and the  *)
(* lists hold heap indices.                                                *)
(* Log messages are the source's strings; its three non-ASCII characters   *)
(* are written (v) for U+2713, (x) for U+2717 and -- for U+2014.           *)
(* Timestamps and the arguments of a ToolCall are not modelled: no code of *)
(* the runtime reads them.                                                 *)
(***************************************************************************)
EXTENDS Integers, Sequences, FiniteSets, TLC

(***************************************************************************)
(* Bounds of the model.                                                    *)
(***************************************************************************)
MaxRuns == 1
MaxExecs == 2
MaxCalls == 2
MaxListLen == 2
MaxConcurrentRuns == 2
MaxConcurrentExecs == 1

(***************************************************************************)
(* Sequence helpers (Array.prototype.includes / filter / join / map).      *)
(***************************************************************************)
Range(s) == {s[i] : i \in 1..Len(s)}

includes(s, x) == \E i \in 1..Len(s) : s[i] = x

RECURSIVE join(_, _)
join(s, sep) ==
  IF Len(s) = 0 THEN ""
  ELSE IF Len(s) = 1 THEN s[1]
  ELSE s[1] \o sep \o join(Tail(s), sep)

RECURSIVE SeqsUpTo(_, _)
SeqsUpTo(S, n) ==
  IF n = 0 THEN {<<>>}
  ELSE LET shorter == SeqsUpTo(S, n - 1)
       IN  shorter \cup {Append(s, x) : s \in {q \in shorter : Len(q) = n - 1}, x \in S}

(***************************************************************************)
(* Tool registry (core/tools).  The parameter schemas and descriptions are *)
(* never read by the permission validator or the orchestrator.             *)
(***************************************************************************)
TOOL_REGISTRY ==
  << [name |-> "readTask",       requiredPermissions |-> <<"read:tasks">>],
     [name |-> "updateTask",     requiredPermissions |-> <<"write:tasks">>],
     [name |-> "createWorkflow", requiredPermissions |-> <<"write:workflows">>],
     [name |-> "listTasks",      requiredPermissions |-> <<"read:tasks">>] >>

RegistryNames == {TOOL_REGISTRY[i].name : i \in 1..Len(TOOL_REGISTRY)}

Permission ==
  {"read:tasks", "write:tasks", "read:workflows", "write:workflows",
   "read:entities", "write:entities", "execute:workflows"}

\* tool.requiredPermissions.every((p) => agentPermissions.includes(p))
hasPermissions(tool, agentPermissions) ==
  \A i \in 1..Len(tool.requiredPermissions) :
     includes(agentPermissions, tool.requiredPermissions[i])

\* a filter that forgets the permission test
getPermittedTools_namesOnly(allowedToolNames, agentPermissions) ==
  SelectSeq(TOOL_REGISTRY, LAMBDA tool : includes(allowedToolNames, tool.name))

getPermittedTools(allowedToolNames, agentPermissions) ==
  SelectSeq(TOOL_REGISTRY,
            LAMBDA tool : /\ includes(allowedToolNames, tool.name)
                          /\ hasPermissions(tool, agentPermissions))

\* The three block reasons and "no reason" (null).
NoBlock == "null"

NotAllowlisted(toolName) ==
  "BLOCKED: Tool \"" \o toolName
    \o "\" is not in the agent's allowed tools list. This call has been rejected."

NotInRegistry(toolName) ==
  "BLOCKED: Tool \"" \o toolName \o "\" does not exist in the registry."

MissingPermissions(missing) ==
  "BLOCKED: Agent lacks permissions: [" \o join(missing, ", ")
    \o "]. This call has been rejected."

\* TOOL_REGISTRY.find((t) => t.name === toolName): index of the first match, 0 if none
findTool(toolName) ==
  IF \E i \in 1..Len(TOOL_REGISTRY) : TOOL_REGISTRY[i].name = toolName
  THEN CHOOSE i \in 1..Len(TOOL_REGISTRY) :
         /\ TOOL_REGISTRY[i].name = toolName
         /\ \A j \in 1..(i - 1) : TOOL_REGISTRY[j].name # toolName
  ELSE 0

missingPermissions(tool, agentPermissions) ==
  SelectSeq(tool.requiredPermissions, LAMBDA p : ~includes(agentPermissions, p))

\* the registry lookup moved in front of the allow-list test
validateToolAccess_registryFirst(toolName, allowedToolNames, agentPermissions) ==
  IF findTool(toolName) = 0 THEN NotInRegistry(toolName)
  ELSE IF ~includes(allowedToolNames, toolName) THEN NotAllowlisted(toolName)
  ELSE LET missing == missingPermissions(TOOL_REGISTRY[findTool(toolName)], agentPermissions)
       IN  IF Len(missing) > 0 THEN MissingPermissions(missing) ELSE NoBlock

\* the permission test left out
validateToolAccess_noPermissions(toolName, allowedToolNames, agentPermissions) ==
  IF ~includes(allowedToolNames, toolName) THEN NotAllowlisted(toolName)
  ELSE IF findTool(toolName) = 0 THEN NotInRegistry(toolName)
  ELSE NoBlock

validateToolAccess(toolName, allowedToolNames, agentPermissions) ==
  IF ~includes(allowedToolNames, toolName) THEN NotAllowlisted(toolName)
  ELSE IF findTool(toolName) = 0 THEN NotInRegistry(toolName)
  ELSE LET missing == missingPermissions(TOOL_REGISTRY[findTool(toolName)], agentPermissions)
       IN  IF Len(missing) > 0 THEN MissingPermissions(missing) ELSE NoBlock

(***************************************************************************)
(* Schema validator (core/schema-validator).                               *)
(***************************************************************************)
\* Property names every ordinary object inherits from Object.prototype: the
\* `in` operator finds them although they are not own keys.
ObjectPrototypeKeys ==
  {"__proto__", "constructor", "hasOwnProperty", "isPrototypeOf",
   "propertyIsEnumerable", "toLocaleString", "toString", "valueOf"}

\* typeof value
typeof(value) ==
  IF value.t \in {"object", "array", "null"} THEN "object" ELSE value.t

\* key in obj, for obj = [k |-> own keys, v |-> values]
keyIn(key, obj) == includes(obj.k, key) \/ key \in ObjectPrototypeKeys

\* obj[key], for a key that is `in` obj
getProp(obj, key) ==
  IF includes(obj.k, key)
  THEN obj.v[CHOOSE i \in 1..Len(obj.k) : obj.k[i] = key]
  ELSE IF key = "__proto__" THEN [t |-> "object", k |-> <<>>, v |-> <<>>]
  ELSE [t |-> "function"]

has(s, field) == field \in DOMAIN s

RECURSIVE validate(_, _, _)
RECURSIVE validateProperties(_, _, _, _)
RECURSIVE validateItems(_, _, _, _)

\* a message that names the missing key without the path of its object
requiredErrors_noPath(obj, required, path) ==
  LET missing == SelectSeq(required, LAMBDA key : ~keyIn(key, obj))
  IN  [i \in 1..Len(missing) |-> missing[i] \o ": required field missing"]

\* for (const key of s.required) if (!(key in obj)) errors.push(...)
requiredErrors(obj, required, path) ==
  LET missing == SelectSeq(required, LAMBDA key : ~keyIn(key, obj))
  IN  [i \in 1..Len(missing) |-> path \o "." \o missing[i] \o ": required field missing"]

\* for (const [key, propSchema] of Object.entries(s.properties)), from entry i on
validateProperties(obj, props, i, path) ==
  IF i > Len(props.k) THEN <<>>
  ELSE (IF keyIn(props.k[i], obj)
        THEN validate(getProp(obj, props.k[i]), props.v[i], path \o "." \o props.k[i])
        ELSE <<>>)
       \o validateProperties(obj, props, i + 1, path)

\* for (const key of Object.keys(obj)) if (!(key in s.properties)) errors.push(...)
additionalErrors(obj, props, path) ==
  LET extra == SelectSeq(obj.k, LAMBDA key : ~keyIn(key, props))
  IN  [i \in 1..Len(extra) |-> path \o "." \o extra[i] \o ": unexpected property"]

\* value.forEach((item, i) => validate(item, s.items, `${path}[${i}]`)), from item i on
validateItems(elems, items, i, path) ==
  IF i > Len(elems) THEN <<>>
  ELSE validate(elems[i], items, path \o "[" \o ToString(i - 1) \o "]")
       \o validateItems(elems, items, i + 1, path)

\* The errors the inner validate(value, s, path) pushes, in push order.
validate(value, s, path) ==
  IF s.type = "object" THEN
    IF value.t # "object"
    THEN << path \o ": expected object, got " \o typeof(value) >>
    ELSE (IF has(s, "required") THEN requiredErrors(value, s.required, path) ELSE <<>>)
         \o (IF has(s, "properties")
             THEN validateProperties(value, s.properties, 1, path) ELSE <<>>)
         \o (IF has(s, "additionalProperties") /\ s.additionalProperties = FALSE
                /\ has(s, "properties")
             THEN additionalErrors(value, s.properties, path) ELSE <<>>)
  ELSE IF s.type = "array" THEN
    IF value.t # "array"
    THEN << path \o ": expected array, got " \o typeof(value) >>
    ELSE IF has(s, "items") THEN validateItems(value.e, s.items, 1, path) ELSE <<>>
  ELSE IF s.type = "string" THEN
    IF value.t # "string"
    THEN << path \o ": expected string, got " \o typeof(value) >>
    ELSE IF has(s, "enum") /\ ~includes(s.enum, value.s)
    THEN << path \o ": must be one of [" \o join(s.enum, ", ") \o "]" >>
    ELSE <<>>
  ELSE IF s.type = "number" THEN
    IF value.t # "number"
    THEN << path \o ": expected number, got " \o typeof(value) >>
    ELSE <<>>
  ELSE IF s.type = "boolean" THEN
    IF value.t # "boolean"
    THEN << path \o ": expected boolean, got " \o typeof(value) >>
    ELSE <<>>
  ELSE <<>>

\* a verdict that ignores the collected errors
validateAgainstSchema_alwaysValid(data, schema) ==
  [valid |-> TRUE, errors |-> validate(data, schema, "$")]

validateAgainstSchema(data, schema) ==
  LET errors == validate(data, schema, "$")
  IN  [valid |-> Len(errors) = 0, errors |-> errors]

(***************************************************************************)
(* Output schemas (core/tools).                                            *)
(***************************************************************************)
StringSchema == [type |-> "string"]

EnumSchema(values) == [type |-> "string", enum |-> values]

StepSchema ==
  [type |-> "object",
   properties |-> [k |-> <<"type", "entity", "update">>,
                   v |-> << EnumSchema(<<"update", "notify", "condition">>),
                            StringSchema, [type |-> "object"] >>],
   required |-> <<"type">>]

WorkflowDefinition ==
  [type |-> "object",
   properties |->
     [k |-> <<"workflow">>,
      v |-> << [type |-> "object",
                properties |-> [k |-> <<"name", "trigger", "steps">>,
                                v |-> << StringSchema, StringSchema,
                                         [type |-> "array", items |-> StepSchema] >>],
                required |-> <<"name", "trigger", "steps">>] >>],
   required |-> <<"workflow">>,
   additionalProperties |-> FALSE]

TaskUpdate ==
  [type |-> "object",
   properties |->
     [k |-> <<"taskId", "updates">>,
      v |-> << StringSchema,
               [type |-> "object",
                properties |->
                  [k |-> <<"status", "priority">>,
                   v |-> << EnumSchema(<<"open", "in-progress", "urgent", "done">>),
                            EnumSchema(<<"low", "medium", "high", "critical">>) >>]] >>],
   required |-> <<"taskId", "updates">>,
   additionalProperties |-> FALSE]

TaskList ==
  [type |-> "object",
   properties |->
     [k |-> <<"tasks">>,
      v |-> << [type |-> "array",
                items |-> [type |-> "object",
                           properties |-> [k |-> <<"id", "title", "status", "priority">>,
                                           v |-> << StringSchema, StringSchema,
                                                    StringSchema, StringSchema >>],
                           required |-> <<"id", "title", "status">>]] >>],
   required |-> <<"tasks">>,
   additionalProperties |-> FALSE]

OUTPUT_SCHEMAS ==
  [WorkflowDefinition |-> WorkflowDefinition,
   TaskUpdate |-> TaskUpdate,
   TaskList |-> TaskList]

\* OUTPUT_SCHEMAS[name] is undefined for a name that is no key of the record
hasSchema(name) == name \in DOMAIN OUTPUT_SCHEMAS


(***************************************************************************)
(* Agent configurations (core/agent-runtime).  AGENT_CONFIGS are the three *)
(* shipped entries.  OtherAgentConfigs are values of the AgentConfig type  *)
(* that are not shipped: an agent whose outputSchema names no entry of     *)
(* OUTPUT_SCHEMAS and whose allow-list names a tool outside the registry.  *)
(* They exercise the branches of the code that the shipped entries never   *)
(* take (schema undefined, tool not found).  The instructions text is only *)
(* handed to the provider.                                                 *)
(***************************************************************************)
AGENT_CONFIGS ==
  << [name |-> "workflow-agent", model |-> "claude-opus-4.6",
      allowedTools |-> <<"readTask", "createWorkflow", "listTasks">>,
      outputSchema |-> "WorkflowDefinition",
      permissions |-> <<"read:tasks", "write:workflows", "read:workflows">>],
     [name |-> "task-agent", model |-> "gpt-5.2",
      allowedTools |-> <<"readTask", "updateTask", "listTasks">>,
      outputSchema |-> "TaskUpdate",
      permissions |-> <<"read:tasks", "write:tasks">>],
     [name |-> "readonly-agent", model |-> "gemini-3",
      allowedTools |-> <<"readTask", "listTasks">>,
      outputSchema |-> "TaskList",
      permissions |-> <<"read:tasks">>] >>

OtherAgentConfigs ==
  << [name |-> "report-agent", model |-> "gpt-5.2",
      allowedTools |-> <<"readTask", "dropDatabase">>,
      outputSchema |-> "Report",
      permissions |-> <<"read:tasks">>] >>

AgentTable == AGENT_CONFIGS \o OtherAgentConfigs

AgentNames == {AgentTable[i].name : i \in 1..Len(AgentTable)}

\* AGENT_CONFIGS.find((c) => c.name === request.agent), for a configured name
findConfig(agent) ==
  AgentTable[CHOOSE i \in 1..Len(AgentTable) :
               /\ AgentTable[i].name = agent
               /\ \A j \in 1..(i - 1) : AgentTable[j].name # agent]

\* The provider registry (core/providers): model id -> displayName
providers ==
  [x \in {"gpt-5.2", "claude-opus-4.6", "gemini-3"} |->
     CASE x = "gpt-5.2" -> "OpenAI GPT-5.2"
       [] x = "claude-opus-4.6" -> "Claude Opus 4.6"
       [] x = "gemini-3" -> "Gemini 3"]

ModelId == DOMAIN providers

\* request.model is optional
NoModel == "undefined"

\* request.model || config.model
effectiveModel(model, config) == IF model = NoModel THEN config.model ELSE model

(***************************************************************************)
(* What a provider may return.  The provider is an external capability:    *)
(* its StructuredResult is an input of the run.  A proposed call carries a *)
(* tool name and whatever status the provider put on it; its arguments are *)
(* never read by the runtime.                                              *)
(***************************************************************************)
Str(x) == [t |-> "string", s |-> x]

Obj(keys, vals) == [t |-> "object", k |-> keys, v |-> vals]

WorkflowData ==
  Obj(<<"workflow">>,
      << Obj(<<"name", "trigger", "steps">>,
             << Str("Custom Workflow"), Str("manual"),
                [t |-> "array",
                 e |-> << Obj(<<"type", "entity", "update">>,
                              << Str("update"), Str("Task"),
                                 Obj(<<"status">>, <<Str("in-progress")>>) >>) >>] >>) >>)

TaskListData ==
  Obj(<<"tasks">>,
      << [t |-> "array",
          e |-> << Obj(<<"id", "title", "status", "priority">>,
                       << Str("task-001"), Str("Update onboarding flow"),
                          Str("open"), Str("high") >>) >>] >>)

TaskUpdateData ==
  Obj(<<"taskId", "updates">>,
      << Str("task-001"), Obj(<<"status">>, <<Str("in-progress")>>) >>)

\* a TaskUpdate without its taskId
MissingTaskIdData == Obj(<<"updates">>, << Obj(<<"status">>, <<Str("done")>>) >>)

DataValues == {WorkflowData, TaskListData, TaskUpdateData, MissingTaskIdData}

ProposableTools == {"readTask", "updateTask", "createWorkflow", "dropDatabase"}

Status == {"pending", "approved", "rejected", "executed"}

ProviderStatuses == {"pending", "executed"}

Proposals ==
  SeqsUpTo([toolName : ProposableTools, status : ProviderStatuses], MaxCalls)

Undefined == [t |-> "undefined"]

(***************************************************************************)
(* The three bundled providers.  Each proposes calls from the words of the *)
(* user prompt and the tools it was shown, and takes its data from         *)
(* generateMockData.                                                       *)
(***************************************************************************)
UpperCase == <<"A", "B", "C", "D", "E", "F", "G", "H", "I", "J", "K", "L", "M",
               "N", "O", "P", "Q", "R", "S", "T", "U", "V", "W", "X", "Y", "Z">>

LowerCase == <<"a", "b", "c", "d", "e", "f", "g", "h", "i", "j", "k", "l", "m",
               "n", "o", "p", "q", "r", "s", "t", "u", "v", "w", "x", "y", "z">>

\* String.prototype.toLowerCase, on the letters A..Z
RECURSIVE toLowerCase(_)
toLowerCase(s) ==
  IF s = "" THEN ""
  ELSE LET c == SubSeq(s, 1, 1)
           lc == IF \E i \in 1..26 : UpperCase[i] = c
                 THEN LowerCase[CHOOSE i \in 1..26 : UpperCase[i] = c]
                 ELSE c
       IN  lc \o toLowerCase(SubSeq(s, 2, Len(s)))

\* String.prototype.includes
stringIncludes(s, part) ==
  \E i \in 1..(Len(s) - Len(part) + 1) : SubSeq(s, i, i + Len(part) - 1) = part

\* String.prototype.trim, for the space character
RECURSIVE trim(_)
trim(s) ==
  IF s = "" THEN ""
  ELSE IF SubSeq(s, 1, 1) = " " THEN trim(SubSeq(s, 2, Len(s)))
  ELSE IF SubSeq(s, Len(s), Len(s)) = " " THEN trim(SubSeq(s, 1, Len(s) - 1))
  ELSE s

\* tools.find(t => t.name === name)
toolsFind(tools, name) == \E i \in 1..Len(tools) : tools[i].name = name

pendingCall(toolName) == [toolName |-> toolName, status |-> "pending"]

\* a provider that proposes updateTask without looking at the tools it was shown
extractToolCallsOpenAI_unlistedUpdate(prompt, tools) ==
  LET lower == toLowerCase(prompt)
  IN  (IF (stringIncludes(lower, "overdue") \/ stringIncludes(lower, "urgent"))
            /\ toolsFind(tools, "createWorkflow")
       THEN << pendingCall("createWorkflow") >> ELSE <<>>)
      \o (IF stringIncludes(lower, "list") /\ toolsFind(tools, "listTasks")
          THEN << pendingCall("listTasks") >> ELSE <<>>)
      \o (IF stringIncludes(lower, "update")
          THEN << pendingCall("updateTask") >> ELSE <<>>)
      \o (IF stringIncludes(lower, "delete") \/ stringIncludes(lower, "drop")
               \/ stringIncludes(lower, "eval")
          THEN << pendingCall("deleteDatabase") >> ELSE <<>>)

\* OpenAIProvider.extractToolCalls
extractToolCallsOpenAI(prompt, tools) ==
  LET lower == toLowerCase(prompt)
  IN  (IF (stringIncludes(lower, "overdue") \/ stringIncludes(lower, "urgent"))
            /\ toolsFind(tools, "createWorkflow")
       THEN << pendingCall("createWorkflow") >> ELSE <<>>)
      \o (IF stringIncludes(lower, "list") /\ toolsFind(tools, "listTasks")
          THEN << pendingCall("listTasks") >> ELSE <<>>)
      \o (IF stringIncludes(lower, "update") /\ toolsFind(tools, "updateTask")
          THEN << pendingCall("updateTask") >> ELSE <<>>)
      \o (IF stringIncludes(lower, "delete") \/ stringIncludes(lower, "drop")
               \/ stringIncludes(lower, "eval")
          THEN << pendingCall("deleteDatabase") >> ELSE <<>>)

\* ClaudeProvider.extractToolCalls
extractToolCallsClaude(prompt, tools) ==
  LET lower == toLowerCase(prompt)
  IN  (IF (stringIncludes(lower, "workflow") \/ stringIncludes(lower, "overdue"))
            /\ toolsFind(tools, "createWorkflow")
       THEN << pendingCall("createWorkflow") >> ELSE <<>>)
      \o (IF stringIncludes(lower, "list") /\ toolsFind(tools, "listTasks")
          THEN << pendingCall("listTasks") >> ELSE <<>>)
      \o (IF stringIncludes(lower, "delete") \/ stringIncludes(lower, "drop")
               \/ stringIncludes(lower, "eval")
          THEN << pendingCall("executeRawSQL") >> ELSE <<>>)

\* GeminiProvider.extractToolCalls
extractToolCallsGemini(prompt, tools) ==
  LET lower == toLowerCase(prompt)
  IN  (IF (stringIncludes(lower, "workflow") \/ stringIncludes(lower, "urgent")
             \/ stringIncludes(lower, "overdue"))
            /\ toolsFind(tools, "createWorkflow")
       THEN << pendingCall("createWorkflow") >> ELSE <<>>)
      \o (IF stringIncludes(lower, "delete") \/ stringIncludes(lower, "eval")
          THEN << pendingCall("dangerousEval") >> ELSE <<>>)

\* the extractToolCalls of the provider registered for modelId
extractToolCalls(modelId, prompt, tools) ==
  CASE modelId = "gpt-5.2" -> extractToolCallsOpenAI(prompt, tools)
    [] modelId = "claude-opus-4.6" -> extractToolCallsClaude(prompt, tools)
    [] modelId = "gemini-3" -> extractToolCallsGemini(prompt, tools)

\* schema.properties?.[key]
declares(schema, key) == has(schema, "properties") /\ includes(schema.properties.k, key)

MockTask(id, title, status, priority) ==
  Obj(<<"id", "title", "status", "priority">>,
      << Str(id), Str(title), Str(status), Str(priority) >>)

generateMockData(prompt, schema) ==
  LET lower == toLowerCase(prompt)
  IN  IF declares(schema, "workflow")
      THEN Obj(<<"workflow">>,
               << Obj(<<"name", "trigger", "steps">>,
                      << Str(IF stringIncludes(lower, "overdue")
                             THEN "Overdue Task Handler" ELSE "Custom Workflow"),
                         Str(IF stringIncludes(lower, "overdue")
                             THEN "task.overdue" ELSE "manual"),
                         [t |-> "array",
                          e |-> << Obj(<<"type", "entity", "update">>,
                                       << Str("update"), Str("Task"),
                                          Obj(<<"status">>,
                                              << Str(IF stringIncludes(lower, "urgent")
                                                     THEN "urgent"
                                                     ELSE "in-progress") >>) >>) >>]
                      >>) >>)
      ELSE IF declares(schema, "tasks")
      THEN Obj(<<"tasks">>,
               << [t |-> "array",
                   e |-> << MockTask("task-001", "Update onboarding flow", "open", "high"),
                            MockTask("task-002", "Fix auth redirect bug", "in-progress",
                                     "critical"),
                            MockTask("task-003", "Add dark mode support", "open",
                                     "medium") >>] >>)
      ELSE IF declares(schema, "taskId")
      THEN Obj(<<"taskId", "updates">>,
               << Str("task-001"), Obj(<<"status">>, <<Str("in-progress")>>) >>)
      ELSE Obj(<<"result">>, <<Str("structured output")>>)

\* OUTPUT_SCHEMAS[config.outputSchema] || { type: "object" }
schemaShown(config) ==
  IF hasSchema(config.outputSchema) THEN OUTPUT_SCHEMAS[config.outputSchema]
  ELSE [type |-> "object"]

(***************************************************************************)
(* State.                                                                  *)
(***************************************************************************)
VARIABLES
  logIdCounter,   \* the module-level counter of createLog
  calls,          \* heap of ToolCall objects: [toolName, status, result]
  written,        \* per ToolCall, the writes of its status: [op, inv, from, to]
  inflight,       \* runDiscussion invocations awaiting their provider
  results,        \* what runDiscussion returned, with the request it served
  execs,          \* runExecution invocations, with what each returned
  thrown,         \* invocations that ended in an exception instead of a result
  probe           \* a direct call of a pure function (its arguments and its value),
                  \* or the React state of the page

vars == <<logIdCounter, calls, written, inflight, results, execs, thrown, probe>>

\* no direct call of a pure function is under way
NoProbe == [fn |-> "none"]

\* an id taken from a clock that ticks once for every two entries
createLog_clockId(n, phase, model, agent, type, message) ==
  [id |-> "log-" \o ToString((n + 1) \div 2), phase |-> phase, model |-> model,
   agent |-> agent, type |-> type, message |-> message]

\* createLog, for the value n the counter takes in it (timestamps are not modelled)
createLog(n, phase, model, agent, type, message) ==
  [id |-> "log-" \o ToString(n), phase |-> phase, model |-> model,
   agent |-> agent, type |-> type, message |-> message]

createLogData(n, phase, model, agent, type, message, data) ==
  createLog(n, phase, model, agent, type, message) @@ [data |-> data]

Init ==
  /\ logIdCounter = 0
  /\ calls = <<>>
  /\ written = <<>>
  /\ inflight = <<>>
  /\ results = <<>>
  /\ execs = <<>>
  /\ thrown = <<>>
  /\ probe = NoProbe

RemoveAt(s, i) == [j \in 1..(Len(s) - 1) |-> IF j < i THEN s[j] ELSE s[j + 1]]

(***************************************************************************)
(* The errors runDiscussion throws before it creates a log entry: the      *)
(* agent lookup comes first, then getProvider(modelId).                    *)
(***************************************************************************)
NoError == "none"

UnknownAgent(agent) == "Unknown agent: " \o agent

\* Object.keys(providers), in insertion order
ProviderKeys == <<"gpt-5.2", "claude-opus-4.6", "gemini-3">>

UnknownModel(modelId) ==
  "Unknown model: " \o modelId \o ". Supported: " \o join(ProviderKeys, ", ")

\* a provider lookup that does not throw for an unregistered model id
configError_noProviderCheck(agent, model) ==
  IF agent \notin AgentNames THEN UnknownAgent(agent) ELSE NoError

\* if (!config) throw ...; const provider = getProvider(modelId)
configError(agent, model) ==
  IF agent \notin AgentNames THEN UnknownAgent(agent)
  ELSE IF effectiveModel(model, findConfig(agent)) \notin ModelId
       THEN UnknownModel(effectiveModel(model, findConfig(agent)))
       ELSE NoError

\* provider.displayName of the provider registered for modelId
displayName(modelId) == IF modelId \in ModelId THEN providers[modelId] ELSE "undefined"

(***************************************************************************)
(* runDiscussion for a request whose agent is not configured or whose      *)
(* effective model has no provider: it throws at its first lines.          *)
(***************************************************************************)
RunDiscussionThrows(agent, model) ==
  /\ configError(agent, model) # NoError
  /\ thrown' = Append(thrown, [op |-> "runDiscussion",
                               request |-> [agent |-> agent, model |-> model],
                               error |-> configError(agent, model)])
  /\ UNCHANGED <<logIdCounter, calls, written, inflight, results, execs, probe>>

(***************************************************************************)
(* runDiscussion up to its await of provider.generateStructuredOutput.     *)
(***************************************************************************)
runDiscussion(request) ==
  /\ configError(request.agent, request.model) = NoError
  /\ LET agent == request.agent
         model == request.model
         config == findConfig(agent)
         modelId == effectiveModel(model, config)
         permittedTools == getPermittedTools(config.allowedTools, config.permissions)
         names == [i \in 1..Len(permittedTools) |-> permittedTools[i].name]
         logs == << createLog(logIdCounter + 1, "discussion", modelId, config.name, "plan",
                              "Starting discussion phase with " \o displayName(modelId)),
                    createLog(logIdCounter + 2, "discussion", modelId, config.name, "plan",
                              "Permitted tools: [" \o join(names, ", ") \o "]") >>
     IN  /\ logIdCounter' = logIdCounter + 2
         /\ inflight' = Append(inflight,
                               [request |-> request,
                                tools |-> permittedTools, logs |-> logs,
                                rejected |-> FALSE])
  /\ UNCHANGED <<calls, written, results, execs, thrown>>

\* a runDiscussion call whose request carries no input the model follows
RunDiscussionCall(agent, model) ==
  /\ runDiscussion([agent |-> agent, model |-> model])
  /\ UNCHANGED probe

(***************************************************************************)
(* The provider's promise rejects.                                         *)
(***************************************************************************)
ProviderRejects(i) ==
  /\ i \in 1..Len(inflight)
  /\ ~inflight[i].rejected
  /\ inflight' = [inflight EXCEPT ![i].rejected = TRUE]
  /\ UNCHANGED <<logIdCounter, calls, written, results, execs, thrown, probe>>

\* a catch around the await that returns an empty result in place of the error
ProviderFails_swallowed(i) ==
  /\ i \in 1..Len(inflight)
  /\ inflight[i].rejected
  /\ inflight' = RemoveAt(inflight, i)
  /\ results' = Append(results,
       [request |-> inflight[i].request,
        value |-> [phase |-> "discussion",
                   result |-> [success |-> FALSE, data |-> Obj(<<>>, <<>>),
                               toolCalls |-> <<>>],
                   logs |-> inflight[i].logs,
                   validationPassed |-> FALSE,
                   blockedCalls |-> <<>>,
                   approvedCalls |-> <<>>]])
  /\ UNCHANGED <<logIdCounter, calls, written, execs, thrown, probe>>

(***************************************************************************)
(* runDiscussion resumes from its await with the rejection: it has no      *)
(* catch, so it rejects with the provider's error.                         *)
(***************************************************************************)
ProviderFails(i) ==
  /\ i \in 1..Len(inflight)
  /\ inflight[i].rejected
  /\ inflight' = RemoveAt(inflight, i)
  /\ thrown' = Append(thrown, [op |-> "runDiscussion", request |-> inflight[i].request,
                               error |-> "ProviderError"])
  /\ UNCHANGED <<logIdCounter, calls, written, results, execs, probe>>

(***************************************************************************)
(* The provider's promise resolves with a StructuredResult, and            *)
(* runDiscussion runs from its await to its return: it classifies every    *)
(* proposed call, validates the data and returns.                          *)
(***************************************************************************)
\* a test that lets every call through
isBlocked_never(blockReason) == FALSE

\* if (blockReason): null is falsy, every block reason is a non-empty string
isBlocked(blockReason) == blockReason # NoBlock

\* an approval that already marks the call executed
classify_executes(blockReason) == IF isBlocked(blockReason) THEN "rejected" ELSE "executed"

\* a classification that rejects every call
classify_rejectsAll(blockReason) == "rejected"

\* the status runDiscussion writes on a call
classify(blockReason) == IF isBlocked(blockReason) THEN "rejected" ELSE "approved"

\* a summary that counts every proposed call as approved
discussionComplete_countsProposed(approved, blocked) ==
  "Discussion complete. " \o ToString(approved + blocked) \o " approved, "
    \o ToString(blocked) \o " blocked."

\* `Discussion complete. ${approvedCalls.length} approved, ${blockedCalls.length} blocked.`
discussionComplete(approved, blocked) ==
  "Discussion complete. " \o ToString(approved) \o " approved, "
    \o ToString(blocked) \o " blocked."

\* a check that is skipped for the proposals of one backend
blockReasonFor_trustedModel(request, toolName) ==
  IF request.model = "gemini-3"
  THEN NoBlock
  ELSE validateToolAccess(toolName, findConfig(request.agent).allowedTools,
                          findConfig(request.agent).permissions)

\* validateToolAccess(call.toolName, config.allowedTools, config.permissions), for
\* the config of the request's agent
blockReasonFor(request, toolName) ==
  validateToolAccess(toolName, findConfig(request.agent).allowedTools,
                     findConfig(request.agent).permissions)

RunDiscussionReturn(i, proposal, data) ==
  /\ i \in 1..Len(inflight)
  /\ ~inflight[i].rejected
  /\ LET request == inflight[i].request
         config == findConfig(request.agent)
         modelId == effectiveModel(request.model, config)
         n == Len(proposal)
         base == Len(calls)
         blockReason(j) == blockReasonFor(request, proposal[j].toolName)
         newCalls == [j \in 1..n |->
                        [toolName |-> proposal[j].toolName,
                         status |-> classify(blockReason(j)),
                         result |-> Undefined]]
         callLogs == [j \in 1..n |->
                        IF isBlocked(blockReason(j))
                        THEN createLogData(logIdCounter + j, "discussion", modelId,
                                           config.name, "blocked", blockReason(j), base + j)
                        ELSE createLogData(logIdCounter + j, "discussion", modelId,
                                           config.name, "tool_call",
                                           "Tool call approved: " \o proposal[j].toolName,
                                           base + j)]
         toolCalls == [j \in 1..n |-> base + j]
         blockedCalls == SelectSeq(toolCalls, LAMBDA c : isBlocked(blockReason(c - base)))
         approvedCalls == SelectSeq(toolCalls, LAMBDA c : ~isBlocked(blockReason(c - base)))
         schemaDefined == hasSchema(config.outputSchema)
         validation == validateAgainstSchema(data, OUTPUT_SCHEMAS[config.outputSchema])
         validationPassed == IF schemaDefined THEN validation.valid ELSE TRUE
         validationLogs ==
           IF schemaDefined
           THEN << createLogData(logIdCounter + n + 1, "discussion", modelId, config.name,
                                 "validation",
                                 IF validationPassed
                                 THEN "(v) Output matches JSON schema"
                                 ELSE "(x) Schema validation failed: "
                                        \o join(validation.errors, "; "),
                                 validation) >>
           ELSE <<>>
         last == logIdCounter + n + Len(validationLogs) + 1
         logs == inflight[i].logs \o callLogs \o validationLogs
                 \o << createLog(last, "discussion", modelId, config.name, "plan",
                                 discussionComplete(Len(approvedCalls),
                                                    Len(blockedCalls))) >>
     IN  /\ logIdCounter' = last
         /\ calls' = calls \o newCalls
         /\ written' = written \o
              [j \in 1..n |-> << [op |-> "runDiscussion", inv |-> Len(results) + 1,
                                  step |-> j,
                                  from |-> proposal[j].status,
                                  to |-> classify(blockReason(j))] >>]
         /\ results' = Append(results,
              [request |-> request,
               value |-> [phase |-> "discussion",
                          result |-> [success |-> TRUE, data |-> data,
                                      toolCalls |-> toolCalls],
                          logs |-> logs,
                          validationPassed |-> validationPassed,
                          blockedCalls |-> blockedCalls,
                          approvedCalls |-> approvedCalls]])
  /\ inflight' = RemoveAt(inflight, i)
  /\ UNCHANGED <<execs, thrown, probe>>

(***************************************************************************)
(* runExecution(discussionResult, request): it has no await, so it runs    *)
(* from call to return in one step.                                        *)
(***************************************************************************)
executionResult(toolName) ==
  Obj(<<"success", "message">>,
      << [t |-> "boolean", b |-> TRUE],
         Str("Executed " \o toolName \o " successfully") >>)

\* call.status = "executed"; call.result = {...}
executeCall(call) ==
  [call EXCEPT !.status = "executed", !.result = executionResult(call.toolName)]

\* a re-validation that fails when the agent's output schema is not defined
revalidate_requiresSchema(config, data) ==
  /\ hasSchema(config.outputSchema)
  /\ validateAgainstSchema(data, OUTPUT_SCHEMAS[config.outputSchema]).valid

\* let validationPassed = true; if (schema) validationPassed = validation.valid
revalidate(config, data) ==
  IF hasSchema(config.outputSchema)
  THEN validateAgainstSchema(data, OUTPUT_SCHEMAS[config.outputSchema]).valid
  ELSE TRUE

\* an execution that goes on after a failed re-validation
aborts_never(validationPassed) == FALSE

\* if (!validationPassed) { ... return ... }
aborts(validationPassed) == ~validationPassed

\* a module-level list of approved calls that every run appends to
callsToExecute_shared(discussionResult) ==
  [k \in 1..Len(SelectSeq(calls, LAMBDA call : call.status = "approved")) |->
     CHOOSE c \in DOMAIN calls :
       /\ calls[c].status = "approved"
       /\ Cardinality({b \in 1..c : calls[b].status = "approved"}) = k]

\* a loop over every proposed call
callsToExecute_all(discussionResult) == discussionResult.result.toolCalls

\* a loop that visits the approved calls last to first
callsToExecute_reversed(discussionResult) ==
  [k \in 1..Len(discussionResult.approvedCalls) |->
     discussionResult.approvedCalls[Len(discussionResult.approvedCalls) + 1 - k]]

\* for (const call of discussionResult.approvedCalls): the calls the loop visits,
\* in the order it visits them
callsToExecute(discussionResult) == discussionResult.approvedCalls

\* the iteration of the loop that visits call c
indexOf(s, c) == CHOOSE k \in 1..Len(s) : s[k] = c

\* the logs of the success return: [...discussionResult.logs, ...logs]
mergeLogs(discussionLogs, logs) == discussionLogs \o logs

runExecution(r, request) ==
  /\ r \in 1..Len(results)
  /\ request.agent \in AgentNames
  /\ LET agent == request.agent
         model == request.model
         discussionResult == results[r].value
         config == findConfig(agent)
         modelId == effectiveModel(model, config)
         schemaDefined == hasSchema(config.outputSchema)
         validation == validateAgainstSchema(discussionResult.result.data,
                                             OUTPUT_SCHEMAS[config.outputSchema])
         validationPassed == revalidate(config, discussionResult.result.data)
         head == << createLog(logIdCounter + 1, "execution", modelId, config.name,
                              "execution", "User confirmed -- entering execution phase") >>
                 \o (IF schemaDefined
                     THEN << createLogData(logIdCounter + 2, "execution", modelId,
                                           config.name, "validation",
                                           IF validationPassed
                                           THEN "(v) Re-validation passed"
                                           ELSE "(x) Re-validation failed: "
                                                  \o join(validation.errors, "; "),
                                           validation) >>
                     ELSE <<>>)
         c0 == logIdCounter + Len(head)
         approved == callsToExecute(discussionResult)
         m == Len(approved)
         invocation == [of |-> r, request |-> request, validated |-> schemaDefined]
     IN  IF aborts(validationPassed)
         THEN LET logs == Append(head,
                            createLog(c0 + 1, "execution", modelId, config.name, "error",
                                      "Execution aborted: output failed re-validation"))
              IN  /\ logIdCounter' = c0 + 1
                  /\ execs' = Append(execs,
                       invocation @@
                       [returned |-> [discussionResult EXCEPT
                                        !.phase = "execution",
                                        !.logs = logs,
                                        !.validationPassed = FALSE]])
                  /\ UNCHANGED <<calls, written>>
         ELSE LET executed == [k \in 1..m |->
                                 createLogData(c0 + k, "execution", modelId, config.name,
                                               "execution",
                                               "Executed: " \o calls[approved[k]].toolName,
                                               approved[k])]
                  logs == head \o executed
                          \o << createLog(c0 + m + 1, "execution", modelId, config.name,
                                          "execution",
                                          "Execution complete. " \o ToString(m)
                                            \o " tool calls executed.") >>
              IN  /\ logIdCounter' = c0 + m + 1
                  /\ calls' = [c \in DOMAIN calls |->
                                 IF includes(approved, c)
                                 THEN executeCall(calls[c])
                                 ELSE calls[c]]
                  /\ written' = [c \in DOMAIN written |->
                                   IF includes(approved, c)
                                   THEN Append(written[c],
                                               [op |-> "runExecution",
                                                inv |-> Len(execs) + 1,
                                                step |-> indexOf(approved, c),
                                                from |-> calls[c].status,
                                                to |-> "executed"])
                                   ELSE written[c]]
                  /\ execs' = Append(execs,
                       invocation @@
                       [returned |-> [phase |-> "execution",
                                      result |-> discussionResult.result,
                                      logs |-> mergeLogs(discussionResult.logs, logs),
                                      validationPassed |-> validationPassed,
                                      blockedCalls |-> discussionResult.blockedCalls,
                                      approvedCalls |-> discussionResult.approvedCalls]])
  /\ UNCHANGED <<inflight, results, thrown>>

\* a runExecution call whose request carries no input the model follows
RunExecution(r, agent, model) ==
  /\ runExecution(r, [agent |-> agent, model |-> model])
  /\ UNCHANGED probe

\* the agent names tried in runDiscussion requests: the configured ones and one
\* that no configuration has
RequestAgents == AgentNames \cup {"ghost-agent"}

\* the model ids tried in runDiscussion requests: none, a registered one and one
\* that no provider is registered for
RequestModels == {NoModel, "gemini-3", "llama-4"}

\* the model ids tried in runExecution requests (the id only labels log entries)
ExecutionModels == {NoModel}

\* the runDiscussion invocations made so far
started == Len(inflight) + Len(results) + Len(thrown)

Next ==
  \/ /\ started < MaxRuns
     /\ \E agent \in RequestAgents, model \in RequestModels :
          RunDiscussionThrows(agent, model)
  \/ /\ started < MaxRuns
     /\ \E agent \in RequestAgents, model \in RequestModels :
          RunDiscussionCall(agent, model)
  \/ \E i \in 1..Len(inflight) : ProviderRejects(i)
  \/ \E i \in 1..Len(inflight) : ProviderFails(i)
  \/ \E i \in 1..Len(inflight), proposal \in Proposals, data \in DataValues :
       RunDiscussionReturn(i, proposal, data)
  \/ /\ Len(execs) < MaxExecs
     /\ \E r \in 1..Len(results), agent \in AgentNames, model \in ExecutionModels :
          RunExecution(r, agent, model)

Spec == Init /\ [][Next]_vars

(***************************************************************************)
(* Several runs at a time: a second runDiscussion may start while the      *)
(* provider call of the first is awaited.  The requests and the provider   *)
(* results are drawn from small sets.                                      *)
(***************************************************************************)
ConcurrentAgents == {"task-agent", "readonly-agent"}

ConcurrentModels == {"claude-opus-4.6", "gemini-3"}

ConcurrentProposals ==
  SeqsUpTo([toolName : {"updateTask", "dropDatabase"}, status : {"pending"}], 1)

ConcurrentData == {TaskUpdateData, MissingTaskIdData}

NextConcurrent ==
  \/ /\ started < MaxConcurrentRuns
     /\ \E agent \in ConcurrentAgents, model \in ConcurrentModels :
          RunDiscussionCall(agent, model)
  \/ \E i \in 1..Len(inflight) : ProviderRejects(i)
  \/ \E i \in 1..Len(inflight) : ProviderFails(i)
  \/ \E i \in 1..Len(inflight), proposal \in ConcurrentProposals,
          data \in ConcurrentData :
       RunDiscussionReturn(i, proposal, data)
  \/ /\ Len(execs) < MaxConcurrentExecs
     /\ \E r \in 1..Len(results), agent \in ConcurrentAgents :
          RunExecution(r, agent, NoModel)

SpecConcurrent == Init /\ [][NextConcurrent]_vars

(***************************************************************************)
(* The permission validator called directly: the arguments are drawn in    *)
(* the initial state, one action per function applies it.                  *)
(***************************************************************************)
ProbeTools == ProposableTools \cup {"listTasks"}

ProbePermissions == {"read:tasks", "write:tasks", "write:workflows"}

AllowedLists ==
  SeqsUpTo(ProbeTools, MaxListLen)
    \cup {AgentTable[i].allowedTools : i \in 1..Len(AgentTable)}

GrantedLists ==
  SeqsUpTo(ProbePermissions, MaxListLen)
    \cup {AgentTable[i].permissions : i \in 1..Len(AgentTable)}

InitAccess ==
  /\ logIdCounter = 0
  /\ calls = <<>>
  /\ written = <<>>
  /\ inflight = <<>>
  /\ results = <<>>
  /\ execs = <<>>
  /\ thrown = <<>>
  /\ \E toolName \in ProbeTools, allowed \in AllowedLists, granted \in GrantedLists :
       probe = [fn |-> "access", toolName |-> toolName, allowedNames |-> allowed,
                grantedPermissions |-> granted]

CallValidateToolAccess ==
  /\ probe.fn = "access"
  /\ ~has(probe, "blockReason")
  /\ probe' = probe @@
       [blockReason |-> validateToolAccess(probe.toolName, probe.allowedNames,
                                           probe.grantedPermissions)]
  /\ UNCHANGED <<logIdCounter, calls, written, inflight, results, execs, thrown>>

CallGetPermittedTools ==
  /\ probe.fn = "access"
  /\ ~has(probe, "permitted")
  /\ probe' = probe @@
       [permitted |-> getPermittedTools(probe.allowedNames, probe.grantedPermissions)]
  /\ UNCHANGED <<logIdCounter, calls, written, inflight, results, execs, thrown>>

NextAccess == CallValidateToolAccess \/ CallGetPermittedTools

SpecAccess == InitAccess /\ [][NextAccess]_vars

(***************************************************************************)
(* The schema validator called directly: the data and the schema are drawn *)
(* in the initial state, one action applies validateAgainstSchema.         *)
(***************************************************************************)
Num(n) == [t |-> "number", n |-> n]

Bool(b) == [t |-> "boolean", b |-> b]

Null == [t |-> "null"]

Arr(elems) == [t |-> "array", e |-> elems]

\* the injected output of the README's Attack Prevention Example, as JSON.parse
\* yields it: "__proto__" is an own key of the parsed object
InjectionData ==
  Obj(<<"taskId", "updates", "__proto__", "executeSQL">>,
      << Str("123"), Obj(<<"status">>, <<Str("done")>>),
         Obj(<<"admin">>, <<Bool(TRUE)>>), Str("DROP TABLE users") >>)

\* a TaskUpdate with several things wrong at once
MultiViolationData ==
  Obj(<<"updates", "executeSQL", "note">>,
      << Obj(<<"status", "priority">>, << Str("deleted"), Num(1) >>),
         Str("DROP TABLE users"), Null >>)

\* a TaskList whose second task misses fields and has a wrong-typed one
BadTaskListData ==
  Obj(<<"tasks">>,
      << Arr(<< Obj(<<"id", "title", "status">>,
                    << Str("task-001"), Str("Update onboarding flow"), Str("open") >>),
                Obj(<<"title", "priority">>, << Num(7), Str("high") >>),
                Str("task-003") >>) >>)

\* a workflow whose steps are wrong in two places
BadWorkflowData ==
  Obj(<<"workflow">>,
      << Obj(<<"name", "steps">>,
             << Str("Custom Workflow"),
                Arr(<< Obj(<<"type">>, <<Str("update")>>),
                       Obj(<<"type", "update">>, << Str("delete"), Arr(<<>>) >>) >>) >>) >>)

ProbeData ==
  DataValues \cup
  {InjectionData, MultiViolationData, BadTaskListData, BadWorkflowData,
   Obj(<<>>, <<>>), Arr(<< Str("a"), Num(1) >>), Str("open"), Str("task-001"),
   Num(42), Bool(FALSE), Null}

\* the shipped schemas, nodes of them, and JSONSchema values the shipped schemas
\* do not use: a closed object without properties, an array without items, the
\* scalar types, and types the validator has no branch for
ProbeSchemas ==
  {WorkflowDefinition, TaskUpdate, TaskList, StepSchema, StringSchema,
   EnumSchema(<<"open", "in-progress", "urgent", "done">>),
   [type |-> "object"],
   [type |-> "object", additionalProperties |-> FALSE],
   [type |-> "object", required |-> <<"taskId">>, additionalProperties |-> FALSE],
   [type |-> "array"],
   [type |-> "array", items |-> StringSchema],
   [type |-> "number"],
   [type |-> "boolean"],
   [type |-> "integer"],
   [type |-> "null"]}

InitValidator ==
  /\ logIdCounter = 0
  /\ calls = <<>>
  /\ written = <<>>
  /\ inflight = <<>>
  /\ results = <<>>
  /\ execs = <<>>
  /\ thrown = <<>>
  /\ \E data \in ProbeData, schema \in ProbeSchemas :
       probe = [fn |-> "validator", data |-> data, schema |-> schema]

CallValidateAgainstSchema ==
  /\ probe.fn = "validator"
  /\ ~has(probe, "result")
  /\ probe' = probe @@ [result |-> validateAgainstSchema(probe.data, probe.schema)]
  /\ UNCHANGED <<logIdCounter, calls, written, inflight, results, execs, thrown>>

NextValidator == CallValidateAgainstSchema

SpecValidator == InitValidator /\ [][NextValidator]_vars

(***************************************************************************)
(* Properties.                                                             *)
(***************************************************************************)
\* What the allow-list check and the permission-superset check demand of a
\* tool name, stated on sets.
registryEntry(toolName) ==
  CHOOSE t \in Range(TOOL_REGISTRY) : t.name = toolName

Authorized(toolName, config) ==
  /\ toolName \in Range(config.allowedTools)
  /\ toolName \in RegistryNames
  /\ Range(registryEntry(toolName).requiredPermissions) \subseteq Range(config.permissions)

ShippedAgents == {AGENT_CONFIGS[i].name : i \in 1..Len(AGENT_CONFIGS)}

\* C1: a ToolCall has status 'executed' only if runDiscussion earlier set it to
\* 'approved', for a tool name that passes the allow-list, registry and permission
\* checks of the agent the discussion ran for.
C1_ExecutedOnlyAfterApproved ==
  \A c \in DOMAIN calls :
    calls[c].status = "executed" =>
      \E i \in 1..Len(written[c]) :
        /\ written[c][i].op = "runDiscussion"
        /\ written[c][i].to = "approved"
        /\ Authorized(calls[c].toolName,
                      findConfig(results[written[c][i].inv].request.agent))
        /\ \E j \in (i + 1)..Len(written[c]) :
             written[c][j].op = "runExecution" /\ written[c][j].to = "executed"

C1_Witness ==
  \E c \in DOMAIN calls : calls[c].status = "executed" /\ Len(written[c]) >= 2

\* C2: runDiscussion executes nothing: the logs it returns hold no 'execution'
\* entry, and until a runExecution is invoked on its result every proposed call is
\* 'approved' or 'rejected' and has no result.
C2_DiscussionExecutesNothing ==
  \A r \in DOMAIN results :
    LET R == results[r].value
    IN  /\ R.phase = "discussion"
        /\ \A i \in 1..Len(R.logs) : R.logs[i].type # "execution"
        /\ (\A e \in DOMAIN execs : execs[e].of # r) =>
             \A c \in Range(R.result.toolCalls) :
               /\ calls[c].status \in {"approved", "rejected"}
               /\ calls[c].result = Undefined

C2_Witness ==
  \E r \in DOMAIN results :
    /\ \A e \in DOMAIN execs : execs[e].of # r
    /\ Len(results[r].value.approvedCalls) = 1
    /\ Len(results[r].value.blockedCalls) = 1
    /\ \A c \in Range(results[r].value.result.toolCalls) :
         written[c][1].from = "executed"

\* C3: for a tool name with no registry entry validateToolAccess returns the
\* NotInRegistry reason, whatever the allow-list and the granted permissions.
C3_UnregisteredIsNotInRegistry ==
  (has(probe, "blockReason") /\ probe.toolName \notin RegistryNames)
    => probe.blockReason = NotInRegistry(probe.toolName)

registryPosition(tool) == CHOOSE q \in 1..Len(TOOL_REGISTRY) : TOOL_REGISTRY[q] = tool

C5_PermittedExactly ==
  has(probe, "permitted") =>
    LET out == probe.permitted
        allowed == Range(probe.allowedNames)
        granted == Range(probe.grantedPermissions)
    IN  /\ Range(out) = {t \in Range(TOOL_REGISTRY) :
                           /\ t.name \in allowed
                           /\ Range(t.requiredPermissions) \subseteq granted}
        /\ \A i, j \in 1..Len(out) :
             i < j => registryPosition(out[i]) < registryPosition(out[j])

C5_Witness ==
  /\ has(probe, "permitted")
  /\ Len(probe.permitted) = 2
  /\ \E name \in Range(probe.allowedNames) \cap RegistryNames :
       \A i \in 1..Len(probe.permitted) : probe.permitted[i].name # name

\* C6: visibility agrees with enforcement: a tool getPermittedTools returns is one
\* validateToolAccess lets through, and a registry tool validateToolAccess lets
\* through is one getPermittedTools returns.
C6_VisibilityIsEnforcement ==
  (has(probe, "permitted") /\ has(probe, "blockReason")) =>
    LET shown == {probe.permitted[i].name : i \in 1..Len(probe.permitted)}
    IN  /\ probe.toolName \in shown => probe.blockReason = NoBlock
        /\ (probe.toolName \in RegistryNames /\ probe.blockReason = NoBlock)
             => probe.toolName \in shown

C6_Witness ==
  /\ has(probe, "permitted")
  /\ has(probe, "blockReason")
  /\ probe.blockReason = NoBlock
  /\ \E i \in 1..Len(probe.permitted) : probe.permitted[i].name = probe.toolName
  /\ Len(probe.permitted) < Cardinality(Range(probe.allowedNames) \cap RegistryNames)

\* C7: every executed ToolCall names a registry tool that passes the allow-list
\* check and the permission check of the agent named in the runExecution request
\* that executed it (read here over the shipped agents only).
C7_ExecutedIsAuthorizedForExecutingAgent ==
  \A c \in DOMAIN calls :
    \A i \in 1..Len(written[c]) :
      (/\ calls[c].status = "executed"
       /\ written[c][i].op = "runExecution"
       /\ execs[written[c][i].inv].request.agent \in ShippedAgents
       /\ results[execs[written[c][i].inv].of].request.agent \in ShippedAgents)
        => Authorized(calls[c].toolName,
                      findConfig(execs[written[c][i].inv].request.agent))

RevalidationFails(e) ==
  LET config == findConfig(e.request.agent)
  IN  /\ hasSchema(config.outputSchema)
      /\ ~validateAgainstSchema(results[e.of].value.result.data,
                                OUTPUT_SCHEMAS[config.outputSchema]).valid

C9_FailedRevalidationExecutesNothing ==
  [][(Len(execs') = Len(execs) + 1 /\ RevalidationFails(execs'[Len(execs')])) =>
       LET e == execs'[Len(execs')]
           approved == results[e.of].value.approvedCalls
       IN  /\ calls' = calls
           /\ \A c \in Range(approved) :
                calls[c].status = "approved" => calls'[c].status = "approved"
           /\ \A c \in DOMAIN calls' : written'[c] = written[c]
           /\ e.returned.approvedCalls = approved
           /\ e.returned.validationPassed = FALSE
           /\ Cardinality({i \in 1..Len(e.returned.logs) :
                             e.returned.logs[i].type = "error"}) = 1
           /\ \A i \in 1..Len(e.returned.logs) :
                ~(e.returned.logs[i].type = "execution" /\ has(e.returned.logs[i], "data"))]_vars

C9_Witness ==
  \E e \in DOMAIN execs :
    /\ execs[e].returned.validationPassed = FALSE
    /\ Len(execs[e].returned.approvedCalls) = 2
    /\ \A c \in Range(execs[e].returned.approvedCalls) : calls[c].status = "approved"

\* C10: the status of a ToolCall only ever moves pending -> approved,
\* pending -> rejected or approved -> executed; no operation writes the status of a
\* call that is rejected or executed.
LegalTransitions ==
  { <<"pending", "approved">>, <<"pending", "rejected">>, <<"approved", "executed">> }

C10_StatusMachine ==
  \A c \in DOMAIN calls :
    \A i \in 1..Len(written[c]) :
      <<written[c][i].from, written[c][i].to>> \in LegalTransitions

\* the runExecution invocations made on discussion result r, in invocation order
execsOf(r) == {e \in DOMAIN execs : execs[e].of = r}

\* the entries a runExecution invocation created itself
createdBy(e) == SelectSeq(execs[e].returned.logs, LAMBDA log : log.phase = "execution")

\* C11: a run is terminal once runExecution has returned for its discussion
\* result: only the first runExecution on a result writes the status or result of
\* the run's calls, and no later runExecution on it adds a log entry to the run.
C11_TerminalAfterExecution ==
  \A r \in DOMAIN results :
    \A e \in execsOf(r) :
      (\E first \in execsOf(r) : first < e) =>
        /\ \A c \in Range(results[r].value.result.toolCalls) :
             \A i \in 1..Len(written[c]) :
               ~(written[c][i].op = "runExecution" /\ written[c][i].inv = e)
        /\ createdBy(e) = <<>>

isPrefix(s, t) == Len(s) <= Len(t) /\ SubSeq(t, 1, Len(s)) = s

\* C12: the logs runExecution returns are the discussion logs followed by the
\* execution logs, on the success path and on the failed re-validation path: the
\* discussion result's logs are a prefix of them, and no 'discussion' entry
\* follows an 'execution' entry.
C12_DiscussionLogsThenExecutionLogs ==
  \A e \in DOMAIN execs :
    LET logs == execs[e].returned.logs
    IN  /\ isPrefix(results[execs[e].of].value.logs, logs)
        /\ \A i, j \in 1..Len(logs) :
             (logs[i].phase = "discussion" /\ logs[j].phase = "execution") => i < j

contains(s, part) ==
  \E i \in 1..(Len(s) - Len(part) + 1) : SubSeq(s, i, i + Len(part) - 1) = part

\* the 'blocked' entries a discussion result logs for call c
blockedEntries(r, c) ==
  SelectSeq(results[r].value.logs,
            LAMBDA log : log.type = "blocked" /\ has(log, "data") /\ log.data = c)

\* C13: when updateTask is proposed to a shipped agent whose granted permissions
\* are exactly [read:tasks], runDiscussion rejects the call and logs a 'blocked'
\* entry whose message contains 'BLOCKED: Agent lacks permissions: [write:tasks]'.
C13_ReadOnlyAgentLacksWritePermission ==
  \A r \in DOMAIN results :
    LET config == findConfig(results[r].request.agent)
    IN  (config.name \in ShippedAgents /\ config.permissions = <<"read:tasks">>) =>
          \A c \in Range(results[r].value.result.toolCalls) :
            calls[c].toolName = "updateTask" =>
              /\ calls[c].status = "rejected"
              /\ \E i \in 1..Len(blockedEntries(r, c)) :
                   contains(blockedEntries(r, c)[i].message,
                            "BLOCKED: Agent lacks permissions: [write:tasks]")

\* C14: a proposed call to a tool with no registry entry ends runDiscussion
\* 'rejected', with a 'blocked' entry whose message contains 'does not exist in
\* the registry', for every agent configuration.
C14_UnregisteredToolBlockedAsNotInRegistry ==
  \A r \in DOMAIN results :
    \A c \in Range(results[r].value.result.toolCalls) :
      calls[c].toolName \notin RegistryNames =>
        /\ calls[c].status = "rejected"
        /\ \E i \in 1..Len(blockedEntries(r, c)) :
             contains(blockedEntries(r, c)[i].message, "does not exist in the registry")

\* C15: after runExecution returns, on either path, every call in blockedCalls is
\* still 'rejected' and has no result, and the executed calls of the run are all
\* in approvedCalls.
C15_BlockedNeverExecuted ==
  \A e \in DOMAIN execs :
    LET R == execs[e].returned
    IN  /\ R.blockedCalls = results[execs[e].of].value.blockedCalls
        /\ R.approvedCalls = results[execs[e].of].value.approvedCalls
        /\ \A c \in Range(R.blockedCalls) :
             calls[c].status = "rejected" /\ calls[c].result = Undefined
        /\ {c \in Range(R.result.toolCalls) : calls[c].status = "executed"}
             \subseteq Range(R.approvedCalls)

C15_Witness ==
  \E e \in DOMAIN execs :
    /\ execs[e].returned.validationPassed
    /\ Len(execs[e].returned.blockedCalls) = 1
    /\ \E c \in Range(execs[e].returned.approvedCalls) : calls[c].status = "executed"

\* the 'Executed: <tool>' entries of a runExecution invocation
executedEntries(e) ==
  SelectSeq(execs[e].returned.logs,
            LAMBDA log : /\ log.phase = "execution"
                         /\ log.type = "execution"
                         /\ has(log, "data"))

\* C16: a runExecution that executes marks the approved calls executed one at a
\* time in the order of approvedCalls, which is the proposal order restricted to
\* the approved calls; its 'Executed: <tool>' entries come in the same order, with
\* consecutive ids (nothing else logs between two executions).
C16_ExecutedInApprovalOrder ==
  \A e \in DOMAIN execs :
    execs[e].returned.validationPassed =>
      LET R == results[execs[e].of].value
          approved == R.approvedCalls
          entries == executedEntries(e)
      IN  /\ approved = SelectSeq(R.result.toolCalls,
                                  LAMBDA c : written[c][1].to = "approved")
          /\ Len(entries) = Len(approved)
          /\ \A k \in 1..Len(approved) :
               /\ entries[k].data = approved[k]
               /\ entries[k].message = "Executed: " \o calls[approved[k]].toolName
               /\ \E i \in 1..Len(written[approved[k]]) :
                    /\ written[approved[k]][i].op = "runExecution"
                    /\ written[approved[k]][i].inv = e
                    /\ written[approved[k]][i].step = k
          /\ \E first \in 0..logIdCounter :
               \A k \in 1..Len(entries) : entries[k].id = "log-" \o ToString(first + k)

C16_Witness ==
  \E e \in DOMAIN execs :
    /\ execs[e].returned.validationPassed
    /\ Len(executedEntries(e)) = 2
    /\ executedEntries(e)[1].message # executedEntries(e)[2].message

\* a request runDiscussion cannot be configured for
ConfigError(request) ==
  \/ request.agent \notin AgentNames
  \/ effectiveModel(request.model, findConfig(request.agent)) \notin ModelId

C19_ProviderFailureClassifiesNothing ==
  [][\A i \in DOMAIN inflight :
       (inflight[i].rejected /\ inflight' = RemoveAt(inflight, i)) =>
         /\ results' = results
         /\ calls' = calls
         /\ written' = written
         /\ logIdCounter' = logIdCounter
         /\ thrown' = Append(thrown, [op |-> "runDiscussion",
                                      request |-> inflight[i].request,
                                      error |-> "ProviderError"])
         /\ \A k \in 1..Len(inflight[i].logs) :
              inflight[i].logs[k].type \notin {"tool_call", "blocked", "validation"}]_vars

C19_Witness ==
  \E t \in DOMAIN thrown : thrown[t].error = "ProviderError"

\* the entries of the given type a discussion result logs for call c
entriesFor(r, c, type) ==
  SelectSeq(results[r].value.logs,
            LAMBDA log : log.type = type /\ has(log, "data") /\ log.data = c)

\* C20: a blocked call is reported as data, never thrown: runDiscussion returns,
\* and every proposed call with a block reason is 'rejected', is in blockedCalls
\* and has exactly one 'blocked' entry whose message is that reason, while every
\* other proposed call is approved, is in approvedCalls and has exactly one
\* 'tool_call' entry.
C20_BlockedCallsAreData ==
  /\ \A t \in DOMAIN thrown :
       thrown[t].error = "ProviderError" \/ ConfigError(thrown[t].request)
  /\ \A r \in DOMAIN results :
       LET R == results[r].value
           config == findConfig(results[r].request.agent)
       IN  \A c \in Range(R.result.toolCalls) :
             LET reason == validateToolAccess(calls[c].toolName, config.allowedTools,
                                              config.permissions)
             IN  IF reason # NoBlock
                 THEN /\ calls[c].status = "rejected"
                      /\ includes(R.blockedCalls, c)
                      /\ ~includes(R.approvedCalls, c)
                      /\ Len(entriesFor(r, c, "blocked")) = 1
                      /\ entriesFor(r, c, "blocked")[1].message = reason
                      /\ entriesFor(r, c, "tool_call") = <<>>
                 ELSE /\ written[c][1].to = "approved"
                      /\ (execsOf(r) = {}) => calls[c].status = "approved"
                      /\ includes(R.approvedCalls, c)
                      /\ ~includes(R.blockedCalls, c)
                      /\ Len(entriesFor(r, c, "tool_call")) = 1
                      /\ entriesFor(r, c, "blocked") = <<>>

C20_Witness ==
  \E r \in DOMAIN results :
    /\ Len(results[r].value.blockedCalls) = 1
    /\ Len(results[r].value.approvedCalls) = 1
    /\ execsOf(r) = {}

\* what runDiscussion decided for result r, by position in the proposal
outcome(r) ==
  LET R == results[r].value
      toolCalls == R.result.toolCalls
      positions(list) == {j \in 1..Len(toolCalls) : includes(list, toolCalls[j])}
  IN  [statuses |-> [j \in 1..Len(toolCalls) |-> written[toolCalls[j]][1].to],
       approved |-> positions(R.approvedCalls),
       blocked |-> positions(R.blockedCalls),
       validationPassed |-> R.validationPassed]

\* what the provider returned to the run of result r
proposed(r) ==
  [toolNames |-> [j \in 1..Len(results[r].value.result.toolCalls) |->
                    calls[results[r].value.result.toolCalls[j]].toolName],
   data |-> results[r].value.result.data]

modelOf(r) ==
  effectiveModel(results[r].request.model, findConfig(results[r].request.agent))

\* C21: authorization and validation do not depend on the model backend: two runs
\* of the same agent whose providers return the same proposed calls and the same
\* data end runDiscussion with the same status for every call, the same
\* approvedCalls and blockedCalls and the same validationPassed.
C21_OutcomeIndependentOfModel ==
  \A r1, r2 \in DOMAIN results :
    (/\ results[r1].request.agent = results[r2].request.agent
     /\ proposed(r1) = proposed(r2))
      => outcome(r1) = outcome(r2)

C21_Witness ==
  \E r1, r2 \in DOMAIN results :
    /\ r1 # r2
    /\ results[r1].request.agent = results[r2].request.agent
    /\ modelOf(r1) # modelOf(r2)
    /\ proposed(r1) = proposed(r2)
    /\ outcome(r1).blocked # {}

\* the number the counter had when the entry was created
idNumber(log) == CHOOSE n \in 0..logIdCounter : log.id = "log-" \o ToString(n)

\* every logs sequence a run holds or has returned
logSequences ==
  {inflight[i].logs : i \in DOMAIN inflight}
    \cup {results[r].value.logs : r \in DOMAIN results}
    \cup {execs[e].returned.logs : e \in DOMAIN execs}

\* C22: log ids are unique across all runs, also runs whose provider calls are in
\* flight together, and monotonic: in every logs sequence a run holds or returns
\* the ids strictly increase, every id is one the counter has handed out, and
\* two entries with the same id are the same entry.
C22_LogIdsUniqueAndMonotonic ==
  /\ \A logs \in logSequences :
       /\ \A i \in 1..Len(logs) :
            \E n \in 1..logIdCounter : logs[i].id = "log-" \o ToString(n)
       /\ \A i, j \in 1..Len(logs) : i < j => idNumber(logs[i]) < idNumber(logs[j])
  /\ \A logs1, logs2 \in logSequences :
       \A i \in 1..Len(logs1), j \in 1..Len(logs2) :
         logs1[i].id = logs2[j].id => logs1[i] = logs2[j]

C22_Witness ==
  \E r1, r2 \in DOMAIN results :
    LET logs1 == results[r1].value.logs
        logs2 == results[r2].value.logs
    IN  /\ idNumber(logs1[1]) < idNumber(logs2[1])
        /\ idNumber(logs2[1]) < idNumber(logs1[Len(logs1)])
        /\ idNumber(logs1[Len(logs1)]) < idNumber(logs2[Len(logs2)])

\* the run a ToolCall belongs to has just been executed
executedNow(c) ==
  /\ Len(execs') = Len(execs) + 1
  /\ c \in Range(results[execs'[Len(execs')].of].value.result.toolCalls)

\* Every step leaves what other runs own as it is: returned results and returned
\* executions are never rewritten, at most one pending invocation changes, and a
\* ToolCall changes only in a runExecution on the result it belongs to.
RunsKeepToTheirOwn ==
  /\ \A r \in DOMAIN results : r \in DOMAIN results' /\ results'[r] = results[r]
  /\ \A e \in DOMAIN execs : e \in DOMAIN execs' /\ execs'[e] = execs[e]
  /\ \/ inflight' = inflight
     \/ \E entry \in Range(inflight') : inflight' = Append(inflight, entry)
     \/ \E i \in DOMAIN inflight :
          \/ inflight' = RemoveAt(inflight, i)
          \/ /\ DOMAIN inflight' = DOMAIN inflight
             /\ \A j \in DOMAIN inflight \ {i} : inflight'[j] = inflight[j]
  /\ \A c \in DOMAIN calls :
       /\ c \in DOMAIN calls'
       /\ (calls'[c] # calls[c] \/ written'[c] # written[c]) => executedNow(c)

\* C23 as stated: runs share no mutable state, so a run that starts after
\* another one has started changes nothing but its own calls and logs; the log id
\* counter, which the earlier run wrote, stays as it is.
C23_RunsShareNoMutableState ==
  [][/\ RunsKeepToTheirOwn
     /\ (started > 0 /\ Len(inflight') = Len(inflight) + 1)
          => logIdCounter' = logIdCounter]_vars

\* C23, amended: apart from the log id counter, which every run increments for
\* each entry it creates, the only state a run mutates is its own ToolCall list
\* and its own log sequence; the registry, the agent configurations and the
\* output schemas are never modified.
C23_RunsShareOnlyTheLogCounter ==
  [][/\ RunsKeepToTheirOwn
     /\ logIdCounter' >= logIdCounter]_vars

C23_Witness ==
  \E r1, r2 \in DOMAIN results :
    /\ r1 # r2
    /\ \E c \in Range(results[r1].value.approvedCalls) : calls[c].status = "executed"
    /\ \E c \in Range(results[r2].value.approvedCalls) : calls[c].status = "approved"

\* the 'validation' entries of a discussion result
validationEntries(r) ==
  SelectSeq(results[r].value.logs, LAMBDA log : log.type = "validation")

SupportedTypes == {"object", "array", "string", "number", "boolean"}

ownKeys(obj) == Range(obj.k)

ownValue(obj, key) == obj.v[CHOOSE i \in 1..Len(obj.k) : obj.k[i] = key]

declaredKeys(s) == IF has(s, "properties") THEN Range(s.properties.k) ELSE {}

propertySchema(s, key) ==
  s.properties.v[CHOOSE i \in 1..Len(s.properties.k) : s.properties.k[i] = key]

requiredKeys(s) == IF has(s, "required") THEN Range(s.required) ELSE {}

closed(s) == has(s, "additionalProperties") /\ s.additionalProperties = FALSE

\* the JSON type of a value as typeof names it
actualType(value) ==
  IF value.t \in {"string", "number", "boolean"} THEN value.t ELSE "object"

RECURSIVE Supported(_)
Supported(s) ==
  /\ s.type \in SupportedTypes
  /\ \A key \in declaredKeys(s) : Supported(propertySchema(s, key))
  /\ has(s, "items") => Supported(s.items)

\* every violation present in value against schema s, as the message prescribed
\* for it at its path; nothing is looked at below a value of the wrong type
RECURSIVE Violations(_, _, _)
Violations(value, s, path) ==
  IF s.type \in {"object", "array"} /\ value.t # s.type
    THEN {path \o ": expected " \o s.type \o ", got " \o actualType(value)}
  ELSE IF s.type = "object"
    THEN {path \o "." \o f \o ": required field missing" :
            f \in requiredKeys(s) \ ownKeys(value)}
         \cup UNION {Violations(ownValue(value, key), propertySchema(s, key),
                                path \o "." \o key) :
                       key \in ownKeys(value) \cap declaredKeys(s)}
         \cup (IF closed(s)
               THEN {path \o "." \o key \o ": unexpected property" :
                       key \in ownKeys(value) \ declaredKeys(s)}
               ELSE {})
  ELSE IF s.type = "array"
    THEN IF has(s, "items")
         THEN UNION {Violations(value.e[i], s.items,
                                path \o "[" \o ToString(i - 1) \o "]") :
                       i \in 1..Len(value.e)}
         ELSE {}
  ELSE IF s.type \in {"string", "number", "boolean"} /\ value.t # s.type
    THEN {path \o ": expected " \o s.type \o ", got " \o actualType(value)}
  ELSE IF s.type = "string" /\ has(s, "enum") /\ value.s \notin Range(s.enum)
    THEN {path \o ": must be one of [" \o join(s.enum, ", ") \o "]"}
  ELSE {}

\* a value built to satisfy s exactly: required fields present, declared types,
\* enum members only, no undeclared key
RECURSIVE Exact(_, _)
Exact(value, s) ==
  /\ value.t = s.type
  /\ s.type = "object" =>
       /\ requiredKeys(s) \subseteq ownKeys(value)
       /\ ownKeys(value) \subseteq declaredKeys(s)
       /\ \A key \in ownKeys(value) : Exact(ownValue(value, key), propertySchema(s, key))
  /\ (s.type = "array" /\ has(s, "items")) =>
       \A i \in 1..Len(value.e) : Exact(value.e[i], s.items)
  /\ (s.type = "string" /\ has(s, "enum")) => value.s \in Range(s.enum)

validated == has(probe, "result")

\* C25: validateAgainstSchema is non-fail-fast: for a schema of the supported
\* subset its errors hold every violation present in the value (missing required
\* fields, type and enum violations in every declared property and array element,
\* disallowed extra keys), nothing being skipped except below a wrong-typed value.
C25_ReportsEveryViolation ==
  (validated /\ Supported(probe.schema)) =>
    Violations(probe.data, probe.schema, "$") \subseteq Range(probe.result.errors)

\* C26: for an object node with additionalProperties === false, whatever else it
\* declares, one 'unexpected property' error is reported for every key of the
\* value that the node's properties do not declare.
C26_EveryUndeclaredKeyReported ==
  (validated /\ probe.schema.type = "object" /\ closed(probe.schema)
     /\ probe.data.t = "object") =>
    \A key \in ownKeys(probe.data) \ declaredKeys(probe.schema) :
      Cardinality({i \in 1..Len(probe.result.errors) :
                     probe.result.errors[i] = "$." \o key \o ": unexpected property"}) = 1

\* C27: the README's injection example, validated against TaskUpdate, is invalid
\* with both '$.__proto__: unexpected property' and '$.executeSQL: unexpected
\* property' among the errors.
C27_InjectionExampleRejectedAsDocumented ==
  (validated /\ probe.data = InjectionData /\ probe.schema = TaskUpdate) =>
    /\ ~probe.result.valid
    /\ "$.__proto__: unexpected property" \in Range(probe.result.errors)
    /\ "$.executeSQL: unexpected property" \in Range(probe.result.errors)

\* C28: a schema node whose type the validator does not support is never
\* accepted silently: the result is not valid=true with an empty error list.
C28_UnsupportedTypeNotAccepted ==
  (validated /\ probe.schema.type \notin SupportedTypes) =>
    ~(probe.result.valid /\ probe.result.errors = <<>>)

isIncreasing(s) == \A i, j \in 1..Len(s) : i < j => s[i] < s[j]

\* C31: in every result of runDiscussion approvedCalls and blockedCalls partition
\* result.toolCalls: each proposed call is in exactly one list, each list keeps
\* the proposal order, a call is in approvedCalls exactly when runDiscussion set it
\* 'approved' and in blockedCalls exactly when it set it 'rejected', and the final
\* 'Discussion complete. X approved, Y blocked.' entry has X + Y = number of
\* proposed calls.
C31_ListsPartitionTheProposal ==
  \A r \in DOMAIN results :
    LET R == results[r].value
        toolCalls == R.result.toolCalls
        approved == R.approvedCalls
        blocked == R.blockedCalls
    IN  /\ isIncreasing(toolCalls) /\ isIncreasing(approved) /\ isIncreasing(blocked)
        /\ Range(approved) \cup Range(blocked) = Range(toolCalls)
        /\ Range(approved) \cap Range(blocked) = {}
        /\ Len(approved) + Len(blocked) = Len(toolCalls)
        /\ \A c \in Range(toolCalls) :
             /\ includes(approved, c) <=> written[c][1].to = "approved"
             /\ includes(blocked, c) <=> written[c][1].to = "rejected"
             /\ (execsOf(r) = {}) => calls[c].status = written[c][1].to
        /\ \E X, Y \in 0..Len(toolCalls) :
             /\ X + Y = Len(toolCalls)
             /\ X = Len(approved)
             /\ R.logs[Len(R.logs)].message =
                  "Discussion complete. " \o ToString(X) \o " approved, "
                    \o ToString(Y) \o " blocked."

C31_Witness ==
  \E r \in DOMAIN results :
    /\ Len(results[r].value.result.toolCalls) = 2
    /\ Len(results[r].value.approvedCalls) = 1
    /\ results[r].value.blockedCalls = << results[r].value.result.toolCalls[1] >>

\* the run of e was executed for the agent its discussion ran for
sameAgent(e) == execs[e].request.agent = results[execs[e].of].request.agent

MaxBundledRuns == 1

EXAMPLE_PROMPTS ==
  << "Create a workflow that marks overdue tasks as urgent",
     "List all current tasks",
     "Try to delete the database (safety test)",
     "Update task-001 status to in-progress" >>

\* the words the bundled providers look for in a prompt
Keywords == <<"overdue", "urgent", "workflow", "list", "update", "delete", "drop", "eval">>

\* the prompts tried: the examples of the UI and, for every set of keywords, a
\* prompt that contains exactly these
BundledPrompts ==
  Range(EXAMPLE_PROMPTS)
    \cup { join(SelectSeq(Keywords, LAMBDA k : k \in S), " ") :
             S \in SUBSET Range(Keywords) }

\* the model overrides tried: none, and each registered model
BundledModels == {NoModel} \cup ModelId

BundledRun(agent, model, input) ==
  /\ runDiscussion([agent |-> agent, model |-> model, input |-> input])
  /\ UNCHANGED probe

\* provider.generateStructuredOutput resolves with what the bundled provider computes
BundledProviderReturns(i) ==
  /\ i \in 1..Len(inflight)
  /\ LET request == inflight[i].request
         config == findConfig(request.agent)
         modelId == effectiveModel(request.model, config)
     IN  RunDiscussionReturn(i,
                             extractToolCalls(modelId, request.input, inflight[i].tools),
                             generateMockData(request.input, schemaShown(config)))

NextBundled ==
  \/ /\ started < MaxBundledRuns
     /\ \E agent \in AgentNames, model \in BundledModels, input \in BundledPrompts :
          BundledRun(agent, model, input)
  \/ \E i \in 1..Len(inflight) : BundledProviderReturns(i)

SpecBundled == Init /\ [][NextBundled]_vars

InventedTools == {"deleteDatabase", "executeRawSQL", "dangerousEval"}

\* the names of the tools runDiscussion shows the provider for a request
shownTo(request) ==
  LET config == findConfig(request.agent)
      permitted == getPermittedTools(config.allowedTools, config.permissions)
  IN  { permitted[i].name : i \in 1..Len(permitted) }

\* C36: with the bundled providers, for every configured agent, model override
\* and prompt, a proposed call is rejected in Discussion exactly when it names a
\* tool outside the Tool Registry: a registry tool is proposed only when it was
\* among the permitted tools shown and is approved, and every invented tool
\* (deleteDatabase, executeRawSQL, dangerousEval) is rejected.
C36_BundledRejectedIffOutsideRegistry ==
  \A r \in DOMAIN results :
    \A c \in Range(results[r].value.result.toolCalls) :
      LET name == calls[c].toolName
          rejected == written[c][1].to = "rejected"
      IN  /\ rejected <=> name \notin RegistryNames
          /\ name \in RegistryNames =>
               /\ name \in shownTo(results[r].request)
               /\ written[c][1].to = "approved"
               /\ includes(results[r].value.approvedCalls, c)
          /\ name \notin RegistryNames =>
               /\ name \in InventedTools
               /\ includes(results[r].value.blockedCalls, c)

C36_Witness ==
  \E r \in DOMAIN results :
    LET R == results[r].value
    IN  /\ Len(R.result.toolCalls) = 3
        /\ Len(R.approvedCalls) = 2
        /\ \A c \in Range(R.approvedCalls) : calls[c].toolName \in RegistryNames
        /\ calls[R.blockedCalls[1]].toolName = "deleteDatabase"

(***************************************************************************)
(* The page (Index): its React state and its event handlers, over the      *)
(* runtime and the bundled providers.  The state of the page is held in    *)
(* probe; discussionResult and executionResult are 0 for null and else the *)
(* position of the value in results and execs.                             *)
(***************************************************************************)
MaxUIRuns == 2

MaxUIExecs == 2

\* the agent cards clicked: the initial selection and one other
UIAgents == {"workflow-agent", "task-agent"}

\* the model buttons clicked: the initial selection and one other
UIModels == {"claude-opus-4.6", "gpt-5.2"}

\* the texts typed into the input
UITexts == {"", "  "}

\* the quick prompts clicked
UIQuickPrompts == {3, 4}

InitUI ==
  /\ logIdCounter = 0
  /\ calls = <<>>
  /\ written = <<>>
  /\ inflight = <<>>
  /\ results = <<>>
  /\ execs = <<>>
  /\ thrown = <<>>
  /\ probe = [fn |-> "ui",
              selectedModel |-> "claude-opus-4.6",
              selectedAgent |-> "workflow-agent",
              input |-> "",
              isRunning |-> FALSE,
              currentPhase |-> "null",
              discussionResult |-> 0,
              executionResult |-> 0,
              allLogs |-> <<>>]

runtime == <<logIdCounter, calls, written, inflight, results, execs, thrown>>

\* onSelectAgent={setSelectedAgent}: the cards are never disabled
SelectAgent(name) ==
  /\ probe' = [probe EXCEPT !.selectedAgent = name]
  /\ UNCHANGED runtime

\* onChange={setSelectedModel}: the buttons are never disabled
SelectModel(model) ==
  /\ probe' = [probe EXCEPT !.selectedModel = model]
  /\ UNCHANGED runtime

\* onChange of the input, which is disabled while a run is in progress
EditInput(text) ==
  /\ ~probe.isRunning
  /\ probe' = [probe EXCEPT !.input = text]
  /\ UNCHANGED runtime

\* onClick={() => setInput(prompt)}: the quick prompts are never disabled
QuickPrompt(k) ==
  /\ probe' = [probe EXCEPT !.input = EXAMPLE_PROMPTS[k]]
  /\ UNCHANGED runtime

\* the request both handlers build from the current selection and input
currentRequest ==
  [agent |-> probe.selectedAgent, model |-> probe.selectedModel,
   input |-> trim(probe.input)]

\* handleRun up to its await of runDiscussion
handleRun ==
  /\ ~(trim(probe.input) = "" \/ probe.isRunning)
  /\ runDiscussion(currentRequest)
  /\ probe' = [probe EXCEPT !.isRunning = TRUE,
                            !.currentPhase = "discussion",
                            !.discussionResult = 0,
                            !.executionResult = 0,
                            !.allLogs = <<>>]

\* handleRun after its await: the try block and the finally
HandleRunResumes ==
  /\ probe.isRunning
  /\ inflight = <<>>
  /\ probe' = [probe EXCEPT !.discussionResult = Len(results),
                            !.allLogs = results[Len(results)].value.logs,
                            !.currentPhase = "discussion",
                            !.isRunning = FALSE]
  /\ UNCHANGED runtime

\* handleExecute: runExecution has no await, so the handler's continuation runs
\* before any other event and isRunning is back to false when it is done
handleExecute ==
  /\ ~(probe.discussionResult = 0 \/ probe.isRunning)
  /\ runExecution(probe.discussionResult, currentRequest)
  /\ probe' = [probe EXCEPT !.currentPhase = "execution",
                            !.executionResult = Len(execs'),
                            !.allLogs = execs'[Len(execs')].returned.logs,
                            !.isRunning = FALSE]

handleReset ==
  /\ probe' = [probe EXCEPT !.discussionResult = 0,
                            !.executionResult = 0,
                            !.allLogs = <<>>,
                            !.currentPhase = "null",
                            !.input = ""]
  /\ UNCHANGED runtime

\* a primary button that offers Execute whenever a discussion result is present
primaryAction_ignoresExecution(ui) ==
  IF ui.discussionResult # 0 THEN "handleExecute" ELSE "handleRun"

\* onClick={discussionResult && !executionResult ? handleExecute : handleRun}
primaryAction(ui) ==
  IF ui.discussionResult # 0 /\ ui.executionResult = 0
  THEN "handleExecute" ELSE "handleRun"

\* a click on the primary button: disabled={isRunning || !input.trim()}
PrimaryClick ==
  /\ ~(probe.isRunning \/ trim(probe.input) = "")
  /\ IF primaryAction(probe) = "handleExecute"
     THEN Len(execs) < MaxUIExecs /\ handleExecute
     ELSE started < MaxUIRuns /\ handleRun

\* onKeyDown: Enter runs handleRun; the input is disabled while a run is in progress
PressEnter ==
  /\ ~probe.isRunning
  /\ started < MaxUIRuns
  /\ handleRun

\* a click on Reset, which is rendered when a result is present
ResetClick ==
  /\ probe.discussionResult # 0 \/ probe.executionResult # 0
  /\ handleReset

NextUI ==
  \/ \E name \in UIAgents : SelectAgent(name)
  \/ \E model \in UIModels : SelectModel(model)
  \/ \E text \in UITexts : EditInput(text)
  \/ \E k \in UIQuickPrompts : QuickPrompt(k)
  \/ PrimaryClick
  \/ PressEnter
  \/ \E i \in 1..Len(inflight) : BundledProviderReturns(i)
  \/ HandleRunResumes
  \/ ResetClick

SpecUI == InitUI /\ [][NextUI]_vars

\* the banner the page renders when executionResult is set
completionBanner(ui) ==
  "(v) Execution complete. "
    \o ToString(Len(execs[ui.executionResult].returned.approvedCalls))
    \o " tool calls executed successfully."

\* C33: in the UI, under any sequence of user events, the agent, model and input
\* handleExecute passes to runExecution are the ones handleRun produced the
\* pending discussion result with.
C33_ExecuteWithTheRequestOfTheDiscussion ==
  \A e \in DOMAIN execs : execs[e].request = results[execs[e].of].request

\* this step invokes runExecution
invokesRunExecution == Len(execs') = Len(execs) + 1

\* this step invokes runDiscussion
invokesRunDiscussion == Len(inflight') = Len(inflight) + 1

\* C34: in the UI runExecution is invoked only while a discussion result that a
\* returned runDiscussion produced is present and not yet executed, never while
\* a run is in progress, and at most once per discussion result; once an
\* execution result exists, or after Reset, a run started from the page is a new
\* Discussion.
C34_ExecuteOncePerPendingDiscussion ==
  [][ /\ invokesRunExecution =>
           /\ probe.discussionResult \in DOMAIN results
           /\ execs'[Len(execs')].of = probe.discussionResult
           /\ probe.executionResult = 0
           /\ execsOf(probe.discussionResult) = {}
           /\ ~probe.isRunning
           /\ inflight = <<>>
      /\ (probe.executionResult # 0 \/ probe.discussionResult = 0) =>
           /\ ~invokesRunExecution
           /\ (~probe.isRunning /\ runtime' # runtime) => invokesRunDiscussion
    ]_vars

C34_Witness ==
  /\ Len(execs) = 1
  /\ Len(results) = 2
  /\ execs[1].of = 1
  /\ probe.discussionResult = 2
  /\ probe.executionResult = 0

\* the calls of the run of execution e that are in status 'executed'
executedOf(e) ==
  { c \in Range(results[execs[e].of].value.result.toolCalls) :
      calls[c].status = "executed" }

\* C35: the completion banner is truthful: when it shows 'Execution complete. N
\* tool calls executed successfully.', exactly N calls of that run have status
\* 'executed', and an execution aborted by failed re-validation is never
\* reported with N > 0.
C35_BannerCountsExecutedCalls ==
  probe.executionResult # 0 =>
    \A N \in 0..Len(calls) :
      completionBanner(probe) =
          "(v) Execution complete. " \o ToString(N) \o " tool calls executed successfully."
        => /\ Cardinality(executedOf(probe.executionResult)) = N
           /\ ~execs[probe.executionResult].returned.validationPassed => N = 0

====
